---- MODULE Spec2Model ----
(***************************************************************************)
(* A model of mywallutils: frame_capture.py (the time parser VideoTime,    *)
(* the frame index planner and sampling loop, the segment time mapper of   *)
(* main) and stw2xml.py (generate_timed_xml, generate_xml).                *)
(*                                                                         *)
(* Times.  A datetime is modelled as its offset from midnight of the run's *)
(* calendar day and a timedelta as a duration, both as records             *)
(* [s |-> seconds, us |-> microseconds] with 0 <= us < 10^6, which is      *)
(* Python's own normalised representation.  Arithmetic is done on the two  *)
(* fields so that a whole day in microseconds never has to fit one integer.*)
(*                                                                         *)
(* Parsed clock strings.  VideoTime sums int * float; the model keeps the  *)
(* sum exactly, in sixtieths of a second (the weight of the fourth part),  *)
(* so binary floating point rounding is abstracted away.                   *)
(***************************************************************************)
EXTENDS Integers, Sequences, FiniteSets

VARIABLES
    pc,               \* position of the program
    err,              \* the exception that ended the run ("" = none)
    values,           \* VideoTime: the argument string, a sequence of characters
    namespace,        \* VideoTime: [set |-> BOOLEAN, val |-> sixtieths of a second]
    args,             \* main: the parsed command line consumed so far
    source,           \* frames the video can still deliver after the seek
    start_frame_index,
    end_frame_index,
    current,
    pics,             \* list of picture paths, each identified by the index in its name
    end_pics,
    anchors,          \* dawn_frame, sunrise_frame, noon_frame, sunset_frame, dusk_frame
    sun,              \* start, dawn, sunrise, noon, sunset, dusk, end instants
    seg,              \* the segment block of the mapper that runs next (1..6)
    timed_pics,       \* list of <<pic_time, pic_path>>
    files             \* what has been written: csv, timed (xml), wrapper (xml)

vars == <<pc, err, values, namespace, args, source, start_frame_index,
          end_frame_index, current, pics, end_pics, anchors, sun, seg,
          timed_pics, files>>

----------------------------------------------------------------------------
(* Bounds of the model *)

MaxTimeLen == 5       \* longest enumerated clock string (plus the listed examples)
MaxFrames == 4        \* largest --num-frames of the capture specification
MaxPics == 13         \* longest picture list given to the mapper
MaxEmit == 3          \* longest list given to generate_timed_xml on its own

(* Program constants *)

US == 1000000         \* microseconds per second (datetime.microsecond)
HalfSecond == 500000  \* round_seconds: obj.microsecond >= 500_000
DaySeconds == 86400   \* timedelta(days=1)
Multiplier0 == 3600   \* VideoTime: multiplier = 3600
Sixty == 60           \* VideoTime: multiplier /= 60
DEFAULT_TRANSITION_DURATION == 5

----------------------------------------------------------------------------
(* Small helpers *)

Min(a, b) == IF a <= b THEN a ELSE b
Max(a, b) == IF a >= b THEN a ELSE b

RECURSIVE Reverse(_)
Reverse(s) == IF s = <<>> THEN <<>> ELSE Append(Reverse(Tail(s)), Head(s))

(* Python slicing seq[lo:hi] on a list of length n: a negative index counts *)
(* from the end, and both ends are clamped to 0..n.                         *)
NormIndex(i, n) == IF i < 0 THEN Max(i + n, 0) ELSE Min(i, n)

(* seq[:hi] where seq[lo:hi] was meant.                                     *)
SliceFromStart(s, lo, hi) == SubSeq(s, 1, NormIndex(hi, Len(s)))

Slice(s, lo, hi) == SubSeq(s, NormIndex(lo, Len(s)) + 1, NormIndex(hi, Len(s)))

----------------------------------------------------------------------------
(* datetime / timedelta arithmetic *)

Norm(s, us) == [s |-> s + (us \div US), us |-> us % US]

Midnight == [s |-> 0, us |-> 0]
OneDay == [s |-> DaySeconds, us |-> 0]

TAdd(a, b) == Norm(a.s + b.s, a.us + b.us)
TSub(a, b) == Norm(a.s - b.s, a.us - b.us)
TdMul(d, j) == Norm(d.s * j, d.us * j)

(* timedelta / int with the quotient truncated instead of rounded.         *)
TdDivTrunc(d, n) ==
    LET r == (d.s % n) * US + d.us
    IN Norm(d.s \div n, r \div n)

(* timedelta / int: the quotient in microseconds, rounded half to even.    *)
TdDiv(d, n) ==
    LET qs == d.s \div n
        r == (d.s % n) * US + d.us
        q == r \div n
        rem == r % n
        up == (2 * rem > n) \/ (2 * rem = n /\ q % 2 = 1)
    IN Norm(qs, IF up THEN q + 1 ELSE q)

round_seconds(obj) ==
    LET o == IF obj.us >= HalfSecond THEN TAdd(obj, [s |-> 1, us |-> 0]) ELSE obj
    IN [s |-> o.s, us |-> 0]

----------------------------------------------------------------------------
(* VideoTime.__call__ *)

Digits == <<"0", "1", "2", "3", "4", "5", "6", "7", "8", "9">>
IsDigit(c) == \E k \in 1..10 : Digits[k] = c
DigitVal(c) == (CHOOSE k \in 1..10 : Digits[k] = c) - 1

(* str.split(":") *)
RECURSIVE SplitFrom(_, _)
SplitFrom(s, acc) ==
    IF s = <<>> THEN <<acc>>
    ELSE IF Head(s) = ":" THEN <<acc>> \o SplitFrom(Tail(s), <<>>)
    ELSE SplitFrom(Tail(s), Append(acc, Head(s)))

Split(s) == SplitFrom(s, <<>>)

(* int(value) raises ValueError unless value is a non-empty digit string   *)
(* (signs, blanks and underscores are outside the modelled alphabet).      *)
IsInt(p) == p # <<>> /\ \A i \in 1..Len(p) : IsDigit(p[i])

RECURSIVE IntOf(_)
IntOf(p) == IF p = <<>> THEN 0
            ELSE IntOf(SubSeq(p, 1, Len(p) - 1)) * 10 + DigitVal(p[Len(p)])

(* The loop of lines 30-32 from part i on; multiplier and video_time in    *)
(* sixtieths of a second.  Returns ok = FALSE when an int() raises.        *)
RECURSIVE Accumulate(_, _, _, _)
Accumulate(parts, i, multiplier, video_time) ==
    IF i > Len(parts) THEN [ok |-> TRUE, val |-> video_time]
    ELSE IF ~IsInt(parts[i]) THEN [ok |-> FALSE, val |-> 0]
    ELSE Accumulate(parts, i + 1, multiplier \div Sixty,
                    video_time + IntOf(parts[i]) * multiplier)

(* The count check admitting a single part.                                *)
CountOkLoose(parts) == Len(parts) >= 1 /\ Len(parts) <= 4

CountOk(parts) == ~(Len(parts) < 2 \/ Len(parts) > 4)

ParseResult(s) ==
    LET parts == Split(s)
    IN IF ~CountOk(parts) THEN [ok |-> FALSE, val |-> 0]
       ELSE Accumulate(parts, 1, Multiplier0 * Sixty, 0)

VideoTimeCall ==
    /\ pc = "parse"
    /\ LET r == ParseResult(values)
       IN \/ /\ r.ok
             /\ namespace' = [set |-> TRUE, val |-> r.val]
             /\ pc' = "parsed"
             /\ err' = ""
          \/ /\ ~r.ok
             /\ namespace' = namespace
             /\ pc' = "error"
             /\ err' = "ArgumentTypeError"
    /\ UNCHANGED <<values, args, source, start_frame_index, end_frame_index,
                   current, pics, end_pics, anchors, sun, seg, timed_pics, files>>

----------------------------------------------------------------------------
(* main: the frame index planner and the sampling loop *)

StartTimes == {0, 90}                  \* parsed start_time, sixtieths of a second
EndTimes == {120}                      \* parsed end_time, sixtieths of a second
FpsValues == {<<1, 1>>, <<3, 2>>}      \* video.get(CAP_PROP_FPS) as a fraction
SkipValues == {0, 1}

NoArgs == [start_time |-> 0, end_time |-> 0, num_skip |-> 0, num_frames |-> 0,
           mirror |-> FALSE, no_write |-> FALSE, csv |-> FALSE]

NoSource == [fps |-> <<1, 1>>, remaining |-> 0]

NoAnchors == [dawn_frame |-> 0, sunrise_frame |-> 0, noon_frame |-> 0,
              sunset_frame |-> 0, dusk_frame |-> 0]

NoSun == [start |-> Midnight, dawn |-> Midnight, sunrise |-> Midnight,
          noon |-> Midnight, sunset |-> Midnight, dusk |-> Midnight,
          end |-> Midnight]

NoFiles == [csv |-> FALSE, timed |-> <<>>, timed_written |-> FALSE,
            wrapper |-> FALSE]

(* int(t * fps) for t in sixtieths of a second and fps = num/den *)
FrameAt(t, fps) == (t * fps[1]) \div (Sixty * fps[2])

mirrored_frame_index(frame_index) ==
    start_frame_index + args.num_frames * 2 - frame_index

(* Lines 150-156 and 161-163.  With num_frames <= 0 the else branch        *)
(* evaluates (end_time - start_time).total_seconds() on two numbers, which *)
(* raises AttributeError.                                                  *)
Plan ==
    /\ pc = "plan"
    /\ start_frame_index' = FrameAt(args.start_time, source.fps) + args.num_skip
    /\ \/ /\ args.num_frames > 0
          /\ end_frame_index' = start_frame_index' + args.num_frames
          /\ current' = start_frame_index'
          /\ pc' = "sample"
          /\ err' = ""
       \/ /\ ~(args.num_frames > 0)
          /\ UNCHANGED <<end_frame_index, current>>
          /\ pc' = "error"
          /\ err' = "AttributeError"
    /\ pics' = <<>>
    /\ end_pics' = <<>>
    /\ UNCHANGED <<values, namespace, args, source, anchors, sun, seg,
                   timed_pics, files>>

(* ret taken from the source even under --no-write.                        *)
ReadSucceedsSourceOnly == source.remaining > 0

(* ret of line 166 *)
ReadSucceeds == args.no_write \/ source.remaining > 0

(* One pass of the while body with ret true (lines 164-185). *)
SampleRead ==
    /\ pc = "sample"
    /\ current <= end_frame_index
    /\ ReadSucceeds
    /\ source' = IF args.no_write THEN source
                 ELSE [source EXCEPT !.remaining = @ - 1]
    /\ pics' = Append(pics, current - start_frame_index)
    /\ LET mirrored_index == mirrored_frame_index(current)
       IN end_pics' = IF /\ args.mirror
                         /\ start_frame_index # current
                         /\ mirrored_index # current
                      THEN Append(end_pics, mirrored_index)
                      ELSE end_pics
    /\ current' = current + 1
    /\ UNCHANGED <<pc, err, values, namespace, args, start_frame_index,
                   end_frame_index, anchors, sun, seg, timed_pics, files>>

(* The loop ends (condition false, or ret false and break); lines 186-189. *)
SampleExit ==
    /\ pc = "sample"
    /\ \/ current > end_frame_index
       \/ /\ current <= end_frame_index
          /\ ~ReadSucceeds
    /\ source' = source
    /\ pics' = pics \o Reverse(end_pics)
    /\ pc' = "sampled"
    /\ UNCHANGED <<err, values, namespace, args, start_frame_index,
                   end_frame_index, current, end_pics, anchors, sun, seg,
                   timed_pics, files>>

(* The instants of get_location_sun_times, localised (lines 194-202).     *)
Hms(h, m, s, us) == [s |-> h * Multiplier0 + m * Sixty + s, us |-> us]

SunOf(dawn, sunrise, noon, sunset, dusk) ==
    [start |-> Midnight, dawn |-> dawn, sunrise |-> sunrise, noon |-> noon,
     sunset |-> sunset, dusk |-> dusk, end |-> TAdd(Midnight, OneDay)]

TypicalSun == SunOf(Hms(6, 0, 0, 0), Hms(7, 0, 0, 0), Hms(12, 0, 0, 0),
                    Hms(18, 0, 0, 0), Hms(19, 0, 0, 0))

UserDawn == 0..3
UserSunrise == 0..3
UserSunset == {0, 5}
UserDusk == {0, 6}

(* Lines 190-213: the branch on the anchors and the derived frame anchors. *)
DeriveAnchors ==
    /\ pc = "sampled"
    /\ \E df \in UserDawn, sf \in UserSunrise, ssf \in UserSunset, dkf \in UserDusk :
          \/ /\ df > 0 \/ sf > 0
             /\ anchors' = [dawn_frame |-> df,
                            sunrise_frame |-> sf,
                            noon_frame |-> Len(pics) \div 2,
                            sunset_frame |->
                                IF args.mirror
                                THEN mirrored_frame_index(sf + start_frame_index)
                                ELSE ssf,
                            dusk_frame |->
                                IF args.mirror
                                THEN mirrored_frame_index(df + start_frame_index)
                                ELSE dkf]
             /\ sun' = TypicalSun
             /\ pc' = "anchored"
          \/ /\ ~(df > 0 \/ sf > 0)
             /\ anchors' = [NoAnchors EXCEPT !.dawn_frame = df,
                                             !.sunrise_frame = sf,
                                             !.sunset_frame = ssf,
                                             !.dusk_frame = dkf]
             /\ sun' = NoSun
             /\ pc' = "flat"
    /\ seg' = 1
    /\ UNCHANGED <<err, values, namespace, args, source, start_frame_index,
                   end_frame_index, current, pics, end_pics, timed_pics, files>>

CaptureInit ==
    /\ pc = "plan"
    /\ err = ""
    /\ values = <<>>
    /\ namespace = [set |-> FALSE, val |-> 0]
    /\ args \in { [NoArgs EXCEPT !.start_time = st, !.end_time = et, !.num_skip = sk,
                                 !.num_frames = n, !.mirror = mi, !.no_write = nw] :
                    st \in StartTimes, et \in EndTimes, sk \in SkipValues,
                    n \in 0..MaxFrames, mi \in BOOLEAN, nw \in BOOLEAN }
    /\ source \in { [fps |-> f, remaining |-> r] :
                      f \in FpsValues, r \in 0..(MaxFrames + 1) }
    /\ start_frame_index = 0
    /\ end_frame_index = 0
    /\ current = 0
    /\ pics = <<>>
    /\ end_pics = <<>>
    /\ anchors = NoAnchors
    /\ sun = NoSun
    /\ seg = 1
    /\ timed_pics = <<>>
    /\ files = NoFiles

CaptureNext == Plan \/ SampleRead \/ SampleExit \/ DeriveAnchors

SpecCapture == CaptureInit /\ [][CaptureNext]_vars

----------------------------------------------------------------------------
(* The parser on its own *)

TimeAlphabet == {"1", "2", ":", "x"}

TimeExamples ==
    { <<"0", "1", ":", "0", "2", ":", "0", "3">>,
      <<"1", ":", "2", ":", "3", ":", "4">>,
      <<"1", ":", "2", ":", "1", ":", "2", ":", "1">>,
      <<"1", "0", ":", "3", "0">> }

TimeStrings ==
    TimeExamples \cup UNION { [1..n -> TimeAlphabet] : n \in 0..MaxTimeLen }

ParseInit ==
    /\ pc = "parse"
    /\ err = ""
    /\ values \in TimeStrings
    /\ namespace = [set |-> FALSE, val |-> 0]
    /\ args = NoArgs
    /\ source = NoSource
    /\ start_frame_index = 0
    /\ end_frame_index = 0
    /\ current = 0
    /\ pics = <<>>
    /\ end_pics = <<>>
    /\ anchors = NoAnchors
    /\ sun = NoSun
    /\ seg = 1
    /\ timed_pics = <<>>
    /\ files = NoFiles

ParseNext == VideoTimeCall

SpecParse == ParseInit /\ [][ParseNext]_vars

----------------------------------------------------------------------------
(* main: the segment time mapper (lines 222-256) *)

(* The k-th of the six blocks: its slice of pics and its time interval.    *)
(* pics[:dawn_frame] starts at 0 and pics[dusk_frame:] ends at len(pics).  *)
SegLo(k) == CASE k = 1 -> 0
              [] k = 2 -> anchors.dawn_frame
              [] k = 3 -> anchors.sunrise_frame
              [] k = 4 -> anchors.noon_frame
              [] k = 5 -> anchors.sunset_frame
              [] OTHER -> anchors.dusk_frame

SegHi(k) == CASE k = 1 -> anchors.dawn_frame
              [] k = 2 -> anchors.sunrise_frame
              [] k = 3 -> anchors.noon_frame
              [] k = 4 -> anchors.sunset_frame
              [] k = 5 -> anchors.dusk_frame
              [] OTHER -> Len(pics)

SegStart(k) == CASE k = 1 -> sun.start
                 [] k = 2 -> sun.dawn
                 [] k = 3 -> sun.sunrise
                 [] k = 4 -> sun.noon
                 [] k = 5 -> sun.sunset
                 [] OTHER -> sun.dusk

SegEnd(k) == CASE k = 1 -> sun.dawn
               [] k = 2 -> sun.sunrise
               [] k = 3 -> sun.noon
               [] k = 4 -> sun.sunset
               [] k = 5 -> sun.dusk
               [] OTHER -> sun.end

(* A division by len(frames) that never raises.                            *)
DivisionNeverRaises(frames) == FALSE

(* duration / len(frames) raises ZeroDivisionError *)
DivisionRaises(frames) == Len(frames) = 0

(* for index, pic_path in enumerate(frames): round_seconds(t0 + d * index) *)
TimedFrames(frames, t0, span) ==
    [i \in 1..Len(frames) |->
        <<round_seconds(TAdd(t0, TdMul(TdDiv(span, Len(frames)), i - 1))),
          frames[i]>>]

MapSegment ==
    /\ pc = "anchored"
    /\ LET frames == Slice(pics, SegLo(seg), SegHi(seg))
       IN \/ /\ DivisionRaises(frames)
             /\ pc' = "error"
             /\ err' = "ZeroDivisionError"
             /\ UNCHANGED <<seg, timed_pics>>
          \/ /\ ~DivisionRaises(frames)
             /\ timed_pics' = timed_pics \o
                    TimedFrames(frames, SegStart(seg), TSub(SegEnd(seg), SegStart(seg)))
             /\ seg' = seg + 1
             /\ pc' = IF seg = 6 THEN "mapped" ELSE "anchored"
             /\ err' = ""
    /\ UNCHANGED <<values, namespace, args, source, start_frame_index,
                   end_frame_index, current, pics, end_pics, anchors, sun, files>>

(* The else branch, lines 253-256. *)
MapFlat ==
    /\ pc = "flat"
    /\ \/ /\ DivisionRaises(pics)
          /\ pc' = "error"
          /\ err' = "ZeroDivisionError"
          /\ UNCHANGED timed_pics
       \/ /\ ~DivisionRaises(pics)
          /\ timed_pics' = timed_pics \o TimedFrames(pics, Midnight, OneDay)
          /\ pc' = "mapped"
          /\ err' = ""
    /\ UNCHANGED <<values, namespace, args, source, start_frame_index,
                   end_frame_index, current, pics, end_pics, anchors, sun, seg,
                   files>>

(* Lines 257-260. *)
WriteCsv ==
    /\ pc = "mapped"
    /\ files' = [files EXCEPT !.csv = args.csv]
    /\ pc' = "emit"
    /\ UNCHANGED <<err, values, namespace, args, source, start_frame_index,
                   end_frame_index, current, pics, end_pics, anchors, sun, seg,
                   timed_pics>>

----------------------------------------------------------------------------
(* stw2xml.generate_timed_xml and generate_xml *)

RECURSIVE SumDurations(_)
SumDurations(recs) ==
    IF recs = <<>> THEN Midnight
    ELSE TAdd(recs[1].duration, SumDurations(Tail(recs)))

(* pics_duration with the last record closing on the last frame's own day. *)
PicsDurationNoWrap(tp) ==
    LET n == Len(tp)
    IN [i \in 1..n |->
          IF i < n
          THEN [duration |-> TSub(tp[i + 1][1], tp[i][1]),
                fr |-> tp[i][2], to |-> tp[i + 1][2]]
          ELSE [duration |-> TSub(TAdd(tp[n][1], OneDay), tp[n][1]),
                fr |-> tp[n][2], to |-> tp[1][2]]]

(* pics_duration of lines 49-62: (duration, fr, to) per picture *)
PicsDuration(tp) ==
    LET n == Len(tp)
        start_time == tp[1][1]
        end_time == TAdd(start_time, OneDay)
    IN [i \in 1..n |->
          IF i < n
          THEN [duration |-> TSub(tp[i + 1][1], tp[i][1]),
                fr |-> tp[i][2], to |-> tp[i + 1][2]]
          ELSE [duration |-> TSub(end_time, tp[n][1]),
                fr |-> tp[n][2], to |-> tp[1][2]]]

(* The <static> and <transition> elements of lines 72-79. *)
Background(tp) ==
    LET pd == PicsDuration(tp)
    IN [starttime |-> tp[1][1],
        records |-> [i \in 1..Len(pd) |->
                       [static |-> [file |-> pd[i].fr, duration |-> pd[i].duration],
                        transition |-> [duration |-> DEFAULT_TRANSITION_DURATION,
                                        from |-> pd[i].fr, to |-> pd[i].to]]],
        total_duration |-> SumDurations(pd)]

(* generate_timed_xml: pics[0] raises IndexError on an empty list. *)
EmitTimed ==
    /\ pc = "emit"
    /\ \/ /\ timed_pics = <<>>
          /\ pc' = "error"
          /\ err' = "IndexError"
          /\ UNCHANGED files
       \/ /\ timed_pics # <<>>
          /\ files' = [files EXCEPT !.timed = Background(timed_pics),
                                    !.timed_written = TRUE]
          /\ pc' = "timed"
          /\ err' = ""
    /\ UNCHANGED <<values, namespace, args, source, start_frame_index,
                   end_frame_index, current, pics, end_pics, anchors, sun, seg,
                   timed_pics>>

(* generate_xml *)
EmitWrapper ==
    /\ pc = "timed"
    /\ files' = [files EXCEPT !.wrapper = TRUE]
    /\ pc' = "done"
    /\ UNCHANGED <<err, values, namespace, args, source, start_frame_index,
                   end_frame_index, current, pics, end_pics, anchors, sun, seg,
                   timed_pics>>

----------------------------------------------------------------------------
(* The mapper and the emitter from the states the sampling loop leaves *)

MicroSun == SunOf(Hms(6, 0, 0, 0), Hms(7, 0, 0, 749999), Hms(12, 0, 0, 500000),
                  Hms(18, 0, 0, 499999), Hms(19, 0, 0, 250000))

ShortSun == SunOf(Hms(6, 0, 0, 0), Hms(7, 0, 0, 0), Hms(12, 0, 0, 499996),
                  Hms(12, 0, 0, 499999), Hms(19, 0, 0, 0))

FlatSun == SunOf(Hms(12, 0, 0, 0), Hms(12, 0, 0, 0), Hms(12, 0, 0, 0),
                 Hms(12, 0, 0, 0), Hms(24, 0, 0, 0))

SunTimes == {TypicalSun, MicroSun, ShortSun, FlatSun}

DawnFrames == {-1, 0, 1, 2}
SunriseFrames == {-1, 0, 2, 3, 4}
(* n - sf and n - df are the values --mirror derives for a full capture.   *)
SunsetFrames(n, sf) == {-2, 0, n \div 2, n \div 2 + 1, n \div 2 + 5, n - sf}
DuskFrames(n, df) == {-1, 0, n - 1, n, n + 1, n - df}

FirstPics(n) == [i \in 1..n |-> i - 1]

(* The states lines 190-221 leave: a run without --mirror whose source     *)
(* delivered n frames and ran out, with any anchors given by the user.     *)
MapInit ==
    \E n \in 0..MaxPics :
      \E df \in DawnFrames, sf \in SunriseFrames :
      \E ssf \in SunsetFrames(n, sf), dkf \in DuskFrames(n, df) :
        /\ err = ""
        /\ values = <<>>
        /\ namespace = [set |-> FALSE, val |-> 0]
        /\ args \in { [NoArgs EXCEPT !.num_frames = MaxPics + 1, !.csv = c] :
                        c \in BOOLEAN }
        /\ source = NoSource
        /\ start_frame_index = 0
        /\ end_frame_index = MaxPics + 1
        /\ current = n
        /\ pics = FirstPics(n)
        /\ end_pics = <<>>
        /\ seg = 1
        /\ timed_pics = <<>>
        /\ files = NoFiles
        /\ \/ /\ df > 0 \/ sf > 0
              /\ pc = "anchored"
              /\ anchors = [dawn_frame |-> df, sunrise_frame |-> sf,
                            noon_frame |-> n \div 2,
                            sunset_frame |-> ssf, dusk_frame |-> dkf]
              /\ sun \in SunTimes
           \/ /\ ~(df > 0 \/ sf > 0)
              /\ pc = "flat"
              /\ anchors = [NoAnchors EXCEPT !.dawn_frame = df,
                                             !.sunrise_frame = sf,
                                             !.sunset_frame = ssf,
                                             !.dusk_frame = dkf]
              /\ sun = NoSun

MapNext == MapSegment \/ MapFlat \/ WriteCsv \/ EmitTimed \/ EmitWrapper

SpecMap == MapInit /\ [][MapNext]_vars

(* generate_timed_xml on any list, as stw2xml.main gives it one *)
EmitTimes == {Hms(0, 0, 0, 0), Hms(6, 30, 0, 0), Hms(23, 59, 0, 0)}
EmitFrames == {1, 2}

EmitInit ==
    /\ pc = "emit"
    /\ err = ""
    /\ values = <<>>
    /\ namespace = [set |-> FALSE, val |-> 0]
    /\ args = NoArgs
    /\ source = NoSource
    /\ start_frame_index = 0
    /\ end_frame_index = 0
    /\ current = 0
    /\ pics = <<>>
    /\ end_pics = <<>>
    /\ anchors = NoAnchors
    /\ sun = NoSun
    /\ seg = 1
    /\ timed_pics \in UNION { [1..n -> EmitTimes \X EmitFrames] : n \in 0..MaxEmit }
    /\ files = NoFiles

EmitNext == EmitTimed \/ EmitWrapper

SpecEmit == EmitInit /\ [][EmitNext]_vars

----------------------------------------------------------------------------
(* Properties of the mapper (SpecMap) *)

Completed == pc \in {"mapped", "emit", "timed", "done"}

AnchorMode == anchors.dawn_frame > 0 \/ anchors.sunrise_frame > 0

PicTime(p) == timed_pics[p][1]

TLeq(a, b) == a.s < b.s \/ (a.s = b.s /\ a.us <= b.us)

(* The frame positions (0-based, after Python's index normalisation) that  *)
(* block k covers.                                                         *)
SegFrom(k) == NormIndex(SegLo(k), Len(pics))
SegTo(k) == NormIndex(SegHi(k), Len(pics))

(* C1: in anchor mode, when the mapper completes, the timestamps of        *)
(* timed_pics are non-decreasing in output order and the first one is      *)
(* start exactly.                                                          *)
C1_Monotone ==
    (Completed /\ AnchorMode) =>
        /\ PicTime(1) = sun.start
        /\ \A p \in 1..(Len(timed_pics) - 1) : TLeq(PicTime(p), PicTime(p + 1))

(* round_to_second(t0 + j * span / n) in exact rational arithmetic: the    *)
(* sub-second part is kept as a numerator over n.                          *)
ExactRound(t0, j, span, n) ==
    LET jd == TdMul(span, j)
        r == (jd.s % n) * US + jd.us
        x == t0.us * n + r
        whole == t0.s + (jd.s \div n) + (x \div (US * n))
        frac == x % (US * n)
    IN [s |-> IF frac >= HalfSecond * n THEN whole + 1 ELSE whole, us |-> 0]

(* q is the whole number of microseconds nearest to span / n, the even one *)
(* of the two when span / n lies exactly between them.                     *)
IsNearestMicros(q, span, n) ==
    LET diff == TSub(TdMul(q, n), span)
        e == diff.s * US + diff.us
        a == IF e < 0 THEN -e ELSE e
    IN 2 * a < n \/ (2 * a = n /\ q.us % 2 = 0)

QuotientFloor(span, n) ==
    [s |-> span.s \div n, us |-> ((span.s % n) * US + span.us) \div n]

(* round_to_second: up to the next second from 500 ms on, else dropped.    *)
ToSecond(x) == [s |-> IF x.us < HalfSecond THEN x.s ELSE x.s + 1, us |-> 0]

QuantisedRound(t0, j, span, n) ==
    LET q0 == QuotientFloor(span, n)
        q1 == TAdd(q0, [s |-> 0, us |-> 1])
        q == IF IsNearestMicros(q0, span, n) THEN q0 ELSE q1
    IN ToSecond(TAdd(t0, TdMul(q, j)))

(* The timestamp of frame j of a segment of n frames over span from t0:    *)
(* with the quotient span / n kept exact, or rounded to the microsecond.   *)
Stamp(exact, t0, j, span, n) ==
    IF exact THEN ExactRound(t0, j, span, n) ELSE QuantisedRound(t0, j, span, n)

(* Every frame of every segment has the timestamp Stamp gives it.          *)
SpacedBy(exact) ==
    /\ (Completed /\ AnchorMode) =>
          \A k \in 1..6 : \A p \in SegFrom(k)..(SegTo(k) - 1) :
              PicTime(p + 1) = Stamp(exact, SegStart(k), p - SegFrom(k),
                                     TSub(SegEnd(k), SegStart(k)),
                                     SegTo(k) - SegFrom(k))
    /\ (Completed /\ ~AnchorMode) =>
          \A p \in 0..(Len(pics) - 1) :
              PicTime(p + 1) = Stamp(exact, Midnight, p, OneDay, Len(pics))

SomeSliceEmpty == \E k \in 1..6 : SegTo(k) <= SegFrom(k)

(* C3: in anchor mode, when one of the six slices holds no frame, the run  *)
(* never gets past the mapper, ends in the division by zero error and has  *)
(* written no csv file, no timed descriptor and no wrapper descriptor.     *)
C3_EmptySegmentFails ==
    (AnchorMode /\ SomeSliceEmpty) =>
        /\ pc \in {"anchored", "error"}
        /\ pc = "error" => err = "ZeroDivisionError"
        /\ files = NoFiles

C3_Witness ==
    /\ pc = "error"
    /\ err = "ZeroDivisionError"
    /\ AnchorMode
    /\ seg = 4
    /\ Len(timed_pics) > 0
    /\ files = NoFiles

(* C4: in anchor mode, when the mapper completes, timed_pics has one entry *)
(* per frame of pics, in the order of pics.                                *)
C4_Partition ==
    (Completed /\ AnchorMode) =>
        /\ Len(timed_pics) = Len(pics)
        /\ \A i \in 1..Len(pics) : timed_pics[i][2] = pics[i]

C4_Witness ==
    /\ pc = "done"
    /\ AnchorMode
    /\ anchors.dusk_frame < 0
    /\ Len(pics) = MaxPics

----------------------------------------------------------------------------
(* Properties of the emitter (SpecEmit) *)

(* C5: generate_timed_xml writes one static record per pair; record i      *)
(* shows frame i for t(i+1) - t(i) and moves on to frame i+1, the last one *)
(* shows the last frame until t(0) + 24h and moves back to the first, and  *)
(* the static durations add up to 24 hours.                                *)
C5_Loop ==
    files.timed_written =>
        LET n == Len(timed_pics)
            rec == files.timed.records
        IN /\ n > 0
           /\ Len(rec) = n
           /\ \A i \in 1..n :
                 /\ rec[i].static.file = timed_pics[i][2]
                 /\ rec[i].transition.from = timed_pics[i][2]
                 /\ rec[i].transition.to = timed_pics[(i % n) + 1][2]
                 /\ TAdd(PicTime(i), rec[i].static.duration)
                       = IF i < n THEN PicTime(i + 1) ELSE TAdd(PicTime(1), OneDay)
           /\ SumDurations([i \in 1..n |-> rec[i].static]) = OneDay

C5_Witness ==
    /\ pc = "done"
    /\ Len(timed_pics) >= 2
    /\ ~TLeq(PicTime(1), PicTime(2))
    /\ files.timed.records[Len(timed_pics)].static.duration # OneDay

----------------------------------------------------------------------------
(* Properties of the time parser (SpecParse) *)

RECURSIVE WeightedSum(_, _)
WeightedSum(parts, i) ==
    IF i > Len(parts) THEN 0
    ELSE IntOf(parts[i]) * (CASE i = 1 -> Multiplier0 * Sixty
                              [] i = 2 -> Sixty * Sixty
                              [] i = 3 -> Sixty
                              [] OTHER -> 1)
         + WeightedSum(parts, i + 1)

----------------------------------------------------------------------------
(* Properties of the planner and the sampling loop (SpecCapture) *)

SpecCaptureFair == SpecCapture /\ WF_vars(CaptureNext)

Sampling == pc \in {"sample", "sampled", "anchored", "flat"}
Sampled == pc \in {"sampled", "anchored", "flat"}

(* The frames the source could deliver when the loop began. *)
Deliverable == source.remaining + (IF args.no_write THEN 0 ELSE current - start_frame_index)

RealPics == IF Sampled THEN SubSeq(pics, 1, Len(pics) - Len(end_pics)) ELSE pics

(* C6: with --mirror, the indices of the mirrored frames never equal the   *)
(* index of a real frame's image, are pairwise different, and are exactly  *)
(* start + 2*num_frames - i for the sampled i other than the start frame   *)
(* and the midpoint start + num_frames.                                    *)
C6_MirrorIndices ==
    (args.mirror /\ Sampling) =>
        LET sampled == start_frame_index..(current - 1)
            real == { i - start_frame_index : i \in sampled }
            mirrored == { end_pics[k] : k \in 1..Len(end_pics) }
            due == sampled \ {start_frame_index, start_frame_index + args.num_frames}
        IN /\ mirrored \cap real = {}
           /\ Cardinality(mirrored) = Len(end_pics)
           /\ mirrored = { start_frame_index + 2 * args.num_frames - i : i \in due }
           /\ Len(end_pics) = Cardinality(due)

(* C8: start_frame_index = floor(start_seconds * fps) + skip_frames;       *)
(* end_frame_index is start_frame_index + num_frames when num_frames > 0   *)
(* and start_frame_index + floor((end_seconds - start_seconds) * fps)      *)
(* otherwise; the computation succeeds and end_frame_index is not below    *)
(* start_frame_index when end_seconds is not below start_seconds.          *)
C8_Planner ==
    pc # "plan" =>
        /\ err = ""
        /\ start_frame_index = FrameAt(args.start_time, source.fps) + args.num_skip
        /\ end_frame_index =
              IF args.num_frames > 0
              THEN start_frame_index + args.num_frames
              ELSE start_frame_index
                     + FrameAt(args.end_time - args.start_time, source.fps)
        /\ args.end_time >= args.start_time => end_frame_index >= start_frame_index

(* The frames collected are those of the indices start, start+1, ... in    *)
(* order, and the final list is these followed by the mirrored frames      *)
(* last-created first, without an error.                                   *)
InCaptureOrder ==
    /\ err = ""
    /\ current <= end_frame_index + 1
    /\ RealPics = [i \in 1..(current - start_frame_index) |-> i - 1]
    /\ pics = RealPics \o Reverse(end_pics)

(* C9 as stated: the loop leaves min(end - start + 1, frames the source    *)
(* can deliver) real frames, in capture order, then the mirrored frames in *)
(* reverse order of creation, without an error.                            *)
C9_SourceBound ==
    Sampled =>
        /\ InCaptureOrder
        /\ Len(RealPics) = Min(end_frame_index - start_frame_index + 1, Deliverable)

(* C9 as amended: the same, the number of real frames being                *)
(* end - start + 1 under --no-write, which never reads the source; the     *)
(* loop moves to the next index at every pass and always ends.             *)
C9_Sampling ==
    /\ [](Sampled =>
            /\ InCaptureOrder
            /\ Len(RealPics) = IF args.no_write
                               THEN end_frame_index - start_frame_index + 1
                               ELSE Min(end_frame_index - start_frame_index + 1,
                                        Deliverable))
    /\ [][(pc = "sample" /\ pc' = "sample") => current' = current + 1]_vars
    /\ (pc = "sample" ~> pc = "sampled")

C9_Witness ==
    /\ pc = "sampled"
    /\ args.mirror
    /\ ~args.no_write
    /\ source.remaining = 0
    /\ current <= end_frame_index
    /\ Len(end_pics) >= 2

(* C10: with --mirror in anchor mode, sunset_frame and dusk_frame are the  *)
(* reflections of sunrise_frame and dawn_frame around noon_frame =         *)
(* len(pics) // 2, so that 0 <= dawn <= sunrise <= noon gives              *)
(* 0 <= dawn <= sunrise <= noon <= sunset <= dusk <= len(pics).            *)
C10_Reflection ==
    (/\ pc = "anchored"
     /\ args.mirror
     /\ 0 <= anchors.dawn_frame
     /\ anchors.dawn_frame <= anchors.sunrise_frame
     /\ anchors.sunrise_frame <= anchors.noon_frame) =>
        /\ anchors.noon_frame = Len(pics) \div 2
        /\ anchors.sunset_frame - anchors.noon_frame
              = anchors.noon_frame - anchors.sunrise_frame
        /\ anchors.dusk_frame - anchors.noon_frame
              = anchors.noon_frame - anchors.dawn_frame
        /\ anchors.noon_frame <= anchors.sunset_frame
        /\ anchors.sunset_frame <= anchors.dusk_frame
        /\ anchors.dusk_frame <= Len(pics)

====
